---- MODULE Spec2Model ----
(***************************************************************************)
(* Model of utils/addresses.py: the script opens a deployment-broadcast    *)
(* file, parses it as JSON, scans d["transactions"] and prints the         *)
(* contract name and address of every record whose name was not seen yet.  *)
(*                                                                         *)
(* Text is modelled as a sequence of one-character strings, a JSON value   *)
(* as a record [t, v] (t = "str" with the text v, or t = "null" standing   *)
(* for any value that is not text), a JSON object as a function whose      *)
(* DOMAIN is the set of keys it has, and standard output as the sequence   *)
(* of the lines written so far.                                            *)
(***************************************************************************)
EXTENDS Integers, Sequences, FiniteSets, TLC

(* ---------------------------- bounds ----------------------------------- *)

\* longest transactions list that is enumerated
MaxRecords == 3

(* ------------------------- input universe ------------------------------ *)

Str(s) == [t |-> "str", v |-> s]

Null == [t |-> "null", v |-> <<>>]

\* a name shorter than the field, one exactly as wide, one wider
Token == <<"T", "o", "k", "e", "n">>

BetMakerPool == <<"B", "e", "t", "M", "a", "k", "e", "r", "P", "o", "o", "l">>

BetMakersRouter ==
  <<"B", "e", "t", "M", "a", "k", "e", "r", "s", "R", "o", "u", "t", "e", "r">>

AddrAA == <<"0", "x", "A", "A">>

AddrBB == <<"0", "x", "B", "B">>

NameTexts == {Token, BetMakerPool, BetMakersRouter}

AddrTexts == {AddrAA, AddrBB}

NameValues == {Str(s) : s \in NameTexts} \cup {Null}

AddrValues == {Str(s) : s \in AddrTexts}

\* the objects of a transactions list: each of the two keys present or not
Records ==
  {("contractName" :> n) @@ ("contractAddress" :> a) :
      n \in NameValues, a \in AddrValues}
  \cup {("contractName" :> n) : n \in NameValues}
  \cup {("contractAddress" :> a) : a \in AddrValues}
  \cup {<<>>}

RecordLists == UNION {[1..n -> Records] : n \in 0..MaxRecords}

\* the parsed top-level object: with or without the key "transactions"
Documents == {<<>>} \cup {("transactions" :> txs) : txs \in RecordLists}

\* what is found at the path P: no file, a file that is not JSON, a document
Files ==
  {[exists |-> FALSE, valid |-> FALSE, doc |-> <<>>],
   [exists |-> TRUE, valid |-> FALSE, doc |-> <<>>]}
  \cup {[exists |-> TRUE, valid |-> TRUE, doc |-> dd] : dd \in Documents}

(* ------------------------- program state ------------------------------- *)

VARIABLES
  file,           \* the file system at path P (never written)
  pc,             \* position of the script
  d,              \* the loaded document (meaningful after json.load)
  contractNames,  \* the list of names already printed
  i,              \* number of records the for loop has consumed
  out,            \* standard output: the lines printed so far
  err             \* the exception that ended the run, "" if none

vars == <<file, pc, d, contractNames, i, out, err>>

(* --------------------------- helpers ----------------------------------- *)

Width == 12

Spaces(n) == [j \in 1..n |-> " "]

\* variant: a field cut to w characters (a fixed-width column)
ljustTruncate(s, w) ==
  IF Len(s) >= w THEN SubSeq(s, 1, w) ELSE s \o Spaces(w - Len(s))

\* str.ljust(w): the text unchanged when it is at least w long, otherwise
\* padded on the right with spaces up to w
ljust(s, w) ==
  IF Len(s) >= w THEN s ELSE s \o Spaces(w - Len(s))

\* str(x) as print applies it to a non-text argument
str(x) == IF x.t = "str" THEN x.v ELSE <<"N", "o", "n", "e">>

\* variant: the new line is put before the earlier ones
printFront(stdout, a, b) == <<a \o <<" ">> \o b>> \o stdout

\* print(a, b): the arguments joined by one space, written as one line
print(stdout, a, b) == Append(stdout, a \o <<" ">> \o b)

\* variant: obj.get(key), None instead of KeyError
get(obj, key) ==
  IF key \in DOMAIN obj
    THEN [raised |-> FALSE, val |-> obj[key]]
    ELSE [raised |-> FALSE, val |-> Null]

\* obj[key]: the value, or KeyError when the object has no such key
subscript(obj, key) ==
  IF key \in DOMAIN obj
    THEN [raised |-> FALSE, val |-> obj[key]]
    ELSE [raised |-> TRUE, val |-> Null]

\* variant: the duplicate filter dropped
notInAlways(x, list) == TRUE

\* x not in list
notIn(x, list) == \A j \in 1..Len(list) : list[j] # x

\* variant: the list scanned from its end
nextRecordReversed(txs, n) == txs[Len(txs) - n]

\* the record the list iterator yields after n records were consumed
\* (Python counts from 0, a TLA+ sequence from 1)
nextRecord(txs, n) == txs[n + 1]

\* variant: the iterator does not move on
advanceNone(n) == n

\* the list iterator moves on by one record
advance(n) == n + 1

Raise(e) == pc' = "error" /\ err' = e

(* --------------------------- actions ----------------------------------- *)

Init ==
  /\ file \in Files
  /\ pc = "open"
  /\ d = <<>>
  /\ contractNames = <<>>
  /\ i = 0
  /\ out = <<>>
  /\ err = ""

\* variant: a line is printed before the file is opened
OpenBanner ==
  /\ pc = "open"
  /\ out' = <<<<"P">>>>
  /\ IF file.exists
       THEN pc' = "load" /\ err' = err
       ELSE Raise("FileNotFoundError")
  /\ UNCHANGED <<file, d, contractNames, i>>

\* f = open(P)
Open ==
  /\ pc = "open"
  /\ IF file.exists
       THEN pc' = "load" /\ err' = err
       ELSE Raise("FileNotFoundError")
  /\ UNCHANGED <<file, d, contractNames, i, out>>

\* d = json.load(f): the whole file is read and parsed here
Load ==
  /\ pc = "load"
  /\ IF file.valid
       THEN pc' = "names" /\ d' = file.doc /\ err' = err
       ELSE Raise("JSONDecodeError") /\ d' = d
  /\ UNCHANGED <<file, contractNames, i, out>>

\* contractNames = []
InitNames ==
  /\ pc = "names"
  /\ pc' = "for"
  /\ contractNames' = <<>>
  /\ UNCHANGED <<file, d, i, out, err>>

\* for k in d["transactions"]: the subscript and the creation of the iterator
ForStart ==
  /\ pc = "for"
  /\ IF subscript(d, "transactions").raised
       THEN Raise("KeyError")
       ELSE pc' = "loop" /\ err' = err
  /\ i' = 0
  /\ UNCHANGED <<file, d, contractNames, out>>

\* variant: a KeyError in the loop discards what was printed
IterateOutputLost ==
  /\ pc = "loop"
  /\ i < Len(d["transactions"])
  /\ LET k == nextRecord(d["transactions"], i)
         name == subscript(k, "contractName")
         addr == subscript(k, "contractAddress")
     IN /\ i' = IF name.raised \/ (notIn(name.val, contractNames)
                                   /\ (name.val.t # "str" \/ addr.raised))
                  THEN i ELSE advance(i)
        /\ IF name.raised
             THEN Raise("KeyError") /\ out' = <<>>
                  /\ UNCHANGED contractNames
             ELSE IF notIn(name.val, contractNames)
               THEN IF name.val.t # "str"
                      THEN Raise("AttributeError")
                           /\ UNCHANGED <<contractNames, out>>
                      ELSE IF addr.raised
                        THEN Raise("KeyError") /\ out' = <<>>
                             /\ UNCHANGED contractNames
                        ELSE /\ out' = print(out, ljust(name.val.v, Width),
                                             str(addr.val))
                             /\ contractNames' =
                                  Append(contractNames, name.val)
                             /\ UNCHANGED <<pc, err>>
               ELSE UNCHANGED <<pc, err, contractNames, out>>
  /\ UNCHANGED <<file, d>>

\* variant: the loop body reads the keys with get
IterateGet ==
  /\ pc = "loop"
  /\ i < Len(d["transactions"])
  /\ LET k == nextRecord(d["transactions"], i)
         name == get(k, "contractName")
         addr == get(k, "contractAddress")
     IN /\ i' = IF notIn(name.val, contractNames) /\ name.val.t # "str"
                  THEN i ELSE advance(i)
        /\ IF notIn(name.val, contractNames)
             THEN IF name.val.t # "str"
                    THEN Raise("AttributeError")
                         /\ UNCHANGED <<contractNames, out>>
                    ELSE /\ out' = print(out, ljust(name.val.v, Width),
                                         str(addr.val))
                         /\ contractNames' = Append(contractNames, name.val)
                         /\ UNCHANGED <<pc, err>>
             ELSE UNCHANGED <<pc, err, contractNames, out>>
  /\ UNCHANGED <<file, d>>

\* one iteration of the loop body: the iterator yields the next record k,
\*   contractName = k["contractName"]                 (KeyError)
\*   if contractName not in contractNames:
\*       print(contractName.ljust(12),                (AttributeError)
\*             k["contractAddress"])                  (KeyError)
\*       contractNames.append(contractName)
\* i counts the records whose iteration completed; an iteration that raises
\* leaves it at the index (from 0) of the failing record
Iterate ==
  /\ pc = "loop"
  /\ i < Len(d["transactions"])
  /\ LET k == nextRecord(d["transactions"], i)
         name == subscript(k, "contractName")
         addr == subscript(k, "contractAddress")
     IN /\ i' = IF name.raised \/ (notIn(name.val, contractNames)
                                   /\ (name.val.t # "str" \/ addr.raised))
                  THEN i ELSE advance(i)
        /\ IF name.raised
             THEN Raise("KeyError") /\ UNCHANGED <<contractNames, out>>
             ELSE IF notIn(name.val, contractNames)
               THEN IF name.val.t # "str"
                      THEN Raise("AttributeError")
                           /\ UNCHANGED <<contractNames, out>>
                      ELSE IF addr.raised
                        THEN Raise("KeyError")
                             /\ UNCHANGED <<contractNames, out>>
                        ELSE /\ out' = print(out, ljust(name.val.v, Width),
                                             str(addr.val))
                             /\ contractNames' =
                                  Append(contractNames, name.val)
                             /\ UNCHANGED <<pc, err>>
               ELSE UNCHANGED <<pc, err, contractNames, out>>
  /\ UNCHANGED <<file, d>>

\* the iterator is exhausted: the script ends with success
ForEnd ==
  /\ pc = "loop"
  /\ i >= Len(d["transactions"])
  /\ pc' = "done"
  /\ UNCHANGED <<file, d, contractNames, i, out, err>>

Next == Open \/ Load \/ InitNames \/ ForStart \/ Iterate \/ ForEnd

Spec == Init /\ [][Next]_vars

\* a sequential script: the interpreter always executes the next statement
FairSpec == Spec /\ WF_vars(Next)

(* ------------------- reference definitions for the claims -------------- *)

\* the file at P is readable JSON whose top-level object has "transactions"
HasTransactions ==
  file.exists /\ file.valid /\ "transactions" \in DOMAIN file.doc

\* the transactions list of the input file (<<>> when there is none)
Input == IF HasTransactions THEN file.doc["transactions"] ELSE <<>>

HasName(r) == "contractName" \in DOMAIN r

HasAddr(r) == "contractAddress" \in DOMAIN r

NameOf(r) == IF HasName(r) THEN r["contractName"] ELSE Null

AddrOf(r) == IF HasAddr(r) THEN r["contractAddress"] ELSE Null

\* every record has a text contractName and a text contractAddress
WellFormed ==
  /\ HasTransactions
  /\ \A j \in 1..Len(Input) :
       /\ HasName(Input[j]) /\ NameOf(Input[j]).t = "str"
       /\ HasAddr(Input[j]) /\ AddrOf(Input[j]).t = "str"

\* record j is the first of txs with its contractName
IsFirst(txs, j) == \A h \in 1..(j - 1) : NameOf(txs[h]) # NameOf(txs[j])

\* the indices of the first occurrences, in increasing order
FirstOccurrences(txs) ==
  SelectSeq([j \in 1..Len(txs) |-> j], LAMBDA j : IsFirst(txs, j))

\* the smallest index of txs that carries the name n
FirstIndexOf(txs, n) ==
  CHOOSE j \in 1..Len(txs) :
    NameOf(txs[j]) = n /\ \A h \in 1..(j - 1) : NameOf(txs[h]) # n

DistinctNames(txs) == {NameOf(txs[j]) : j \in 1..Len(txs)}

\* the name field of a line, written out: padded to 12 or left as it is
NameField(n) ==
  IF Len(n) < 12 THEN n \o [j \in 1..(12 - Len(n)) |-> " "] ELSE n

StartsWith(line, p) ==
  Len(line) >= Len(p) /\ SubSeq(line, 1, Len(p)) = p

\* the line is the one of the name n: its name field and the space after it
IsLineOf(line, n) == StartsWith(line, NameField(n.v) \o <<" ">>)

LinesOf(n) == {l \in 1..Len(out) : IsLineOf(out[l], n)}

\* what a run prints for the list txs: one line per first occurrence
ExpectedOutput(txs) ==
  [l \in 1..Len(FirstOccurrences(txs)) |->
     NameField(NameOf(txs[FirstOccurrences(txs)[l]]).v) \o <<" ">>
       \o AddrOf(txs[FirstOccurrences(txs)[l]]).v]

IsPrefix(s, t) == Len(s) <= Len(t) /\ SubSeq(t, 1, Len(s)) = s

(* ------------------------------ claims --------------------------------- *)

\* C1: on a well-formed input, after the run, every contractName of the
\* list has exactly one line, and that line carries the contractAddress of
\* the record with the smallest index among the records with that name.
C1_FirstWins ==
  (pc = "done" /\ WellFormed) =>
    \A n \in DistinctNames(Input) :
      /\ Cardinality(LinesOf(n)) = 1
      /\ \A l \in LinesOf(n) :
           out[l] = NameField(n.v) \o <<" ">>
                      \o AddrOf(Input[FirstIndexOf(Input, n)]).v

\* a completed run over a list where a later record repeats a name with a
\* different address
C1_Witness ==
  /\ pc = "done" /\ WellFormed
  /\ \E a, b \in 1..Len(Input) :
       /\ a < b
       /\ NameOf(Input[a]) = NameOf(Input[b])
       /\ AddrOf(Input[a]) # AddrOf(Input[b])

\* C2: on a well-formed input with K distinct contractName values a
\* completed run has printed exactly K lines; an empty list gives none.
C2_LineCount ==
  (pc = "done" /\ WellFormed) =>
    /\ Len(out) = Cardinality(DistinctNames(Input))
    /\ (Input = <<>> => out = <<>>)

\* a completed run over three records with two distinct names
C2_Witness ==
  /\ pc = "done" /\ WellFormed
  /\ Len(Input) = 3
  /\ Cardinality(DistinctNames(Input)) = 2
  /\ Len(out) = 2

\* C3: on a well-formed input the names on the printed lines, in output
\* order, are the distinct contractName values in the order of their first
\* occurrence in the list.
C3_FirstSeenOrder ==
  (pc = "done" /\ WellFormed) =>
    /\ Len(out) = Len(FirstOccurrences(Input))
    /\ \A l \in 1..Len(out) :
         IsLineOf(out[l], NameOf(Input[FirstOccurrences(Input)[l]]))
    /\ \A a, b \in 1..Len(Input) :
         (IsFirst(Input, a) /\ IsFirst(Input, b) /\ a < b) =>
           \A la \in LinesOf(NameOf(Input[a])) :
             \A lb \in LinesOf(NameOf(Input[b])) : la < lb

\* a completed run that printed two names, the second one not in sorted
\* order after the first, with a repeat of the first name after the second
C3_Witness ==
  /\ pc = "done" /\ WellFormed
  /\ Len(Input) = 3
  /\ NameOf(Input[1]) = Str(Token)
  /\ NameOf(Input[2]) = Str(BetMakerPool)
  /\ NameOf(Input[3]) = Str(Token)
  /\ Len(out) = 2

\* a required key is missing somewhere: no "transactions", or a record
\* without contractName or without contractAddress
AnyKeyMissing ==
  /\ file.exists /\ file.valid
  /\ \/ ~HasTransactions
     \/ \E j \in 1..Len(Input) : ~HasName(Input[j]) \/ ~HasAddr(Input[j])

\* C4 as stated: whenever a required key is missing, at any position, the
\* run does not exit successfully.
C4_AnyMissingKeyFails == AnyKeyMissing => pc # "done"

\* a key is missing where the script reads it: no "transactions", a record
\* without contractName, or a record without contractAddress whose
\* contractName did not occur earlier in the list
ReadKeyMissing ==
  /\ file.exists /\ file.valid
  /\ \/ ~HasTransactions
     \/ \E j \in 1..Len(Input) :
          \/ ~HasName(Input[j])
          \/ ~HasAddr(Input[j]) /\ IsFirst(Input, j)

AllNamesText ==
  \A j \in 1..Len(Input) : HasName(Input[j]) => NameOf(Input[j]).t = "str"

\* C4 amended: when "transactions" is absent, or a record lacks
\* contractName, or a record whose contractName did not occur earlier lacks
\* contractAddress, the run does not exit successfully, and when every
\* contractName present is text it ends with a KeyError.
C4_ReadKeyMissingFails ==
  ReadKeyMissing =>
    /\ pc # "done"
    /\ (pc = "error" /\ AllNamesText) => err = "KeyError"

\* a run that failed with KeyError on a record after some line was printed
C4_Witness ==
  /\ ReadKeyMissing /\ HasTransactions
  /\ pc = "error" /\ err = "KeyError"
  /\ i >= 1 /\ out # <<>>

\* C5: every printed line is the name field, one space and the address as
\* it is; the field is the name followed by 12 - L spaces when the name has
\* L < 12 characters, and the name unchanged when L >= 12.
C5_LineFormat ==
  /\ Len(out) = Len(FirstOccurrences(SubSeq(Input, 1, i)))
  /\ \A l \in 1..Len(out) :
       LET r == Input[FirstOccurrences(SubSeq(Input, 1, i))[l]]
           n == NameOf(r).v
           field == SubSeq(out[l], 1, Len(out[l]) - Len(AddrOf(r).v) - 1)
       IN /\ out[l] = field \o <<" ">> \o AddrOf(r).v
          /\ Len(n) < 12 =>
               /\ Len(field) = 12
               /\ SubSeq(field, 1, Len(n)) = n
               /\ \A c \in (Len(n) + 1)..12 : field[c] = " "
          /\ Len(n) >= 12 => field = n

\* lines were printed for a name shorter than 12, one of exactly 12 and a
\* longer one
C5_Witness ==
  /\ Len(out) = 3
  /\ \E a, b, c \in 1..3 :
       /\ IsLineOf(out[a], Str(Token))
       /\ IsLineOf(out[b], Str(BetMakerPool))
       /\ IsLineOf(out[c], Str(BetMakersRouter))

\* C6: when the file is missing or is not valid JSON, the run never gets
\* past the load and nothing is ever printed; a load failure and a
\* non-empty output never occur together.
C6_LoadFailureNoOutput ==
  /\ (~file.exists \/ ~file.valid) =>
       /\ out = <<>>
       /\ pc \in {"open", "load", "error"}
  /\ err \in {"FileNotFoundError", "JSONDecodeError"} =>
       /\ pc = "error"
       /\ out = <<>>

\* the run ended on a file that is not valid JSON
C6_Witness == pc = "error" /\ err = "JSONDecodeError"

\* C7: on a readable well-formed input the run never reaches the error
\* state, each loop iteration moves on by exactly one record, and the run
\* ends in the success state with every record consumed.
C7_Terminates ==
  /\ [](WellFormed => pc # "error")
  /\ [][(WellFormed /\ pc = "loop") =>
          \/ pc' = "loop" /\ i' = i + 1
          \/ pc' = "done" /\ i' = i /\ i = Len(Input)]_vars
  /\ [](WellFormed => <>(pc = "done" /\ i = Len(Input)))

\* a completed run over a well-formed list of three records
C7_Witness == pc = "done" /\ WellFormed /\ i = 3 /\ Len(Input) = 3

\* C8: when the scan fails with a missing key at the record of index i, the
\* output is exactly what a run prints for the records before it, and the
\* failed run takes no further step.
C8_PartialOutputKept ==
  /\ [](pc = "error" /\ err = "KeyError" /\ HasTransactions =>
          /\ i < Len(Input)
          /\ ~HasName(Input[i + 1]) \/ ~HasAddr(Input[i + 1])
          /\ out = ExpectedOutput(SubSeq(Input, 1, i)))
  /\ [][pc # "error" /\ IsPrefix(out, out')]_vars

\* the scan failed on the third record after two lines were printed
C8_Witness ==
  /\ pc = "error" /\ err = "KeyError" /\ HasTransactions
  /\ i = 2 /\ Len(out) = 2

\* the record the loop is about to process has a contractName that is
\* already in the seen list
AtSeenRecord ==
  /\ pc = "loop"
  /\ i < Len(Input)
  /\ HasName(Input[i + 1])
  /\ \E j \in 1..Len(contractNames) : contractNames[j] = NameOf(Input[i + 1])

\* C9: processing a record whose name is already seen changes neither the
\* output nor the seen list and raises nothing, and no step ever removes a
\* name from the seen list.
C9_SkipIsPure ==
  /\ [][AtSeenRecord =>
          /\ out' = out
          /\ contractNames' = contractNames
          /\ pc' = "loop" /\ err' = "" /\ i' = i + 1]_vars
  /\ [][IsPrefix(contractNames, contractNames')]_vars

\* a record with a seen name and no contractAddress was skipped
C9_Witness ==
  /\ pc = "loop" /\ i = 2
  /\ Len(contractNames) = 1 /\ Len(out) = 1
  /\ NameOf(Input[2]) = contractNames[1]
  /\ ~HasAddr(Input[2])

\* C10: at every point of the run the seen list has no duplicates, is as
\* long as the output, and its l-th entry is the name of the l-th line, so
\* a name is in the list exactly when one line was printed for it.
C10_SeenMatchesOutput ==
  /\ \A a, b \in 1..Len(contractNames) :
       contractNames[a] = contractNames[b] => a = b
  /\ Len(contractNames) = Len(out)
  /\ \A l \in 1..Len(contractNames) :
       /\ contractNames[l].t = "str"
       /\ LinesOf(contractNames[l]) = {l}
  /\ \A n \in NameValues :
       (\E l \in 1..Len(contractNames) : contractNames[l] = n)
         <=> (n.t = "str" /\ Cardinality(LinesOf(n)) = 1)

\* the seen list holds two names after a repeated name was skipped
C10_Witness ==
  /\ pc = "loop" /\ i = 3
  /\ Len(contractNames) = 2
  /\ NameOf(Input[3]) = contractNames[1]

====
